---------------------------- MODULE Spec2Model ----------------------------
(***************************************************************************)
(* The Xen-specific bus_dma(9) implementation, sys/x86/xen/busdma_xen.c:   *)
(* DMA maps whose load also allocates grant references and grants the      *)
(* tag's domain access to every page of the buffer.                        *)
(*                                                                         *)
(* Every handler of busdma_xen.c is an operator from a world (the record   *)
(* of all state variables plus the handler's scratch values) to the SET of *)
(* worlds it can leave behind: the choices of its collaborators (the       *)
(* segment translator, malloc(M_NOWAIT), the grant table) are the members  *)
(* of that set.  An action picks one member.                               *)
(***************************************************************************)
EXTENDS Integers, Sequences, FiniteSets, TLC

\* ------------------------------------------------------------------ bounds
\* nsegments of the tag (newtag->max_segments).
max_segments == 2
\* Number of entries of the grant table.
PoolSize == 3

Maps == {"mapA", "mapB"}
Refs == 1..PoolSize

\* --------------------------------------------------------------- constants
PAGE_SHIFT == 12
PAGE_SIZE == 2^PAGE_SHIFT
BUS_DMA_XEN_GNTTAB_FLAGS_SHIFT == 16
BUS_DMA_XEN_RO == 2^BUS_DMA_XEN_GNTTAB_FLAGS_SHIFT
BUS_DMA_NOWAIT == 1
BUS_DMA_XEN_DOMID_SHIFT == 16
\* BUS_DMA_BUS1 of sys/bus_dma.h.
BUSDMA_XEN_TAG_INIT == 16
\* The largest bus address, ~0 of bus_addr_t, as far as the integers of the
\* model checker reach; only its order against PAGE_SIZE is used.
BUS_SPACE_MAXADDR == 2147483647
\* ~0 as an int.
BUS_SPACE_UNRESTRICTED == -1
\* The domain of the other end, encoded in the flags of tag creation.
domid == 7

atop(addr) == addr \div PAGE_SIZE
ptoa(frame) == frame * PAGE_SIZE

\* A pointer: NULL, or an allocated array.
NULL == [alloc |-> FALSE, v |-> <<>>]
Arr(s) == [alloc |-> TRUE, v |-> s]

\* An array element malloc() left uninitialised, and an indeterminate frame.
Junk == 0
\* What an uninitialised int shifted right by 16 can hold: the flags of a
\* read-write grant, or of a read-only one.
GarbageFlags == {0, 1}

\* gnttab_callback is not queued.
NotQueued == -1

Range(s) == {s[i] : i \in 1..Len(s)}

RECURSIVE SeqOf(_)
\* The references of a batch in the order gnttab_claim_grant_reference pops them.
SeqOf(S) ==
  IF S = {} THEN <<>>
  ELSE LET x == CHOOSE x \in S : \A y \in S : x <= y
       IN <<x>> \o SeqOf(S \ {x})

Prefix(s, n) == [i \in 1..n |-> s[i]]

\* The machine frame of page i of the buffer the driver loads on map m: every
\* map has a buffer of its own.
BufferFrame(m, i) == (IF m = "mapA" THEN 0 ELSE max_segments) + i

\* The segment arrays the translator can produce for the buffer of map m: one
\* segment per page, at most nsegments of them, each a page-aligned machine
\* address.
SegChoices(m) ==
  {[i \in 1..n |-> ptoa(BufferFrame(m, i))] : n \in 1..max_segments}

\* ------------------------------------------------------------ tag creation
\* A tag handle: NULL, the new Xen tag, or what an unassigned variable of
\* the caller holds.
NoTag == [kind |-> "NULL", max_segments |-> 0, domid |-> 0, parent |-> "none"]

Unassigned == [NoTag EXCEPT !.kind = "unassigned"]

\* xen_bus_dma_tag_create(parent, ..., nsegments, maxsegsz, flags, ..., dmat):
\* dmat0 is *dmat on entry, fail names the collaborator that fails
\* (common_bus_dma_tag_create, or bus_dma_tag_create of the parent tag).
\* The result is the error returned and *dmat on return.
xen_bus_dma_tag_create(dmat0, parent, nsegments, maxsegsz, flags, fail) ==
  LET dom == flags \div 2^BUS_DMA_XEN_DOMID_SHIFT
      low == flags % 65536
      oldparent == IF (low \div BUSDMA_XEN_TAG_INIT) % 2 = 1
                   THEN parent ELSE "parent of " \o parent
  IN IF maxsegsz > PAGE_SIZE THEN [error |-> "EINVAL", dmat |-> dmat0]
     ELSE IF fail # "none" THEN [error |-> "ENOMEM", dmat |-> NoTag]
     ELSE [error |-> "0",
           dmat |-> [kind |-> "tag", max_segments |-> nsegments,
                     domid |-> dom, parent |-> oldparent]]

\* xen_get_dma_tag(parent): newtag is a local without initialiser, garbage is
\* what it holds; the error of the creation is dropped and newtag returned.
xen_get_dma_tag(parent, garbage, fail) ==
  xen_bus_dma_tag_create(garbage, parent, BUS_SPACE_UNRESTRICTED,
                         BUS_SPACE_MAXADDR, BUSDMA_XEN_TAG_INIT, fail)

\* The arguments a driver creates a tag with: a first Xen tag on the tag of
\* the bus, or a tag derived from a Xen tag.
TagArgs ==
  [op : {"args"},
   parent : {"nexus", "xentag"},
   init : {0, BUSDMA_XEN_TAG_INIT},
   nsegments : 1..(max_segments + 1),
   maxsegsz : {1, PAGE_SIZE, PAGE_SIZE + 1, BUS_SPACE_MAXADDR},
   domid : {0, 1, domid},
   error : {"none"},
   dmat : {Unassigned}]

\* The tag of the maps: created with nsegments = max_segments, segments of
\* one page and the domain of the other end in the flags.
DriverTag ==
  LET r == xen_bus_dma_tag_create(Unassigned, "xentag", max_segments,
             PAGE_SIZE, domid * 2^BUS_DMA_XEN_DOMID_SHIFT, "none")
  IN [op |-> "create", parent |-> "xentag", init |-> 0,
      nsegments |-> max_segments, maxsegsz |-> PAGE_SIZE, domid |-> domid,
      error |-> r.error, dmat |-> r.dmat]

\* ------------------------------------------------------------------- state
VARIABLES
  tag,         \* the tag call of the driver: its arguments and its outcome
  maps,        \* struct bus_dmamap_xen of every map
  pmaps,       \* the state of xenmap->map, the map of the parent tag
  free,        \* the free list of the grant table
  others,      \* the references the other drivers of the system hold
  entry,       \* the grant table: what each reference grants
  segments,    \* the segment array of the parent tag, shared by its maps
  obs,         \* per map, what the driver asked for and was handed
  panic,       \* the kernel panicked (panic(), a failed KASSERT, a fault)
  lock,        \* the lock of the tag (lockfunc, lockfuncarg) is held
  faulted,     \* no collaborator (malloc(), the translator) fails from
               \* here on: a behaviour has one failure at most
  conforming   \* the driver has kept to the protocol so far

vars ==
  <<tag, maps, pmaps, free, others, entry, segments, obs, panic, lock,
    faulted, conforming>>

Unbound == [dom |-> -1, frame |-> -1, flags |-> -1]

NoMap ==
  [live |-> FALSE, refs |-> NULL, nrefs |-> 0, callback |-> 0,
   gnttab_callback |-> NotQueued, temp_segs |-> NULL, sleepable |-> FALSE,
   preallocated |-> FALSE, loaded |-> FALSE, gnttab_flags |-> 0]

\* What the driver sees of the load in flight on a map (history variables).
NoObs ==
  [phase |-> "idle",      \* idle | translating | awaiting | bound
   ret |-> "none",        \* what the load call returned
   waitok |-> FALSE,      \* the load was issued without BUS_DMA_NOWAIT
   gflags |-> 0,          \* flags >> 16 of the load's flags argument
   xflags |-> 0,          \* the flags the translator was handed
   xlat |-> <<>>,         \* the segments the translation produced
   ncb |-> 0,             \* invocations of the driver's callback
   cbwho |-> 0,           \* the callback invoked: 1 the load's argument,
                          \* 2 the one saved in the map
   cberr |-> "none",      \* the error the callback was handed
   cbsegs |-> <<>>,       \* the segments the callback was handed
   cbnseg |-> 0,          \* the segment count the callback was handed
   cblock |-> FALSE,      \* the lock of the tag was held around the call
   cbok |-> FALSE,        \* at the call every reference was claimed and
                          \* granted for the frame of its segment
   nbound |-> 0,          \* gnttab_grant_foreign_access_ref calls
   nalloc |-> 0,          \* gnttab_alloc_grant_references calls
   exhausted |-> FALSE,   \* one of them failed
   punload |-> FALSE,     \* bus_dmamap_unload of the parent map was called
   held |-> {},           \* the references the completed load bound
   prev |-> {},           \* after unload: the references the load had bound
   reload |-> FALSE]      \* the load completed at once and followed a load
                          \* and an unload

World ==
  [maps |-> maps, pmaps |-> pmaps, free |-> free, entry |-> entry,
   segments |-> segments, obs |-> obs, panic |-> panic, lock |-> lock,
   faulted |-> faulted, conforming |-> conforming, err |-> "0", nseg |-> 0]

Becomes(w) ==
  /\ maps' = w.maps
  /\ pmaps' = w.pmaps
  /\ free' = w.free
  /\ entry' = w.entry
  /\ segments' = w.segments
  /\ obs' = w.obs
  /\ panic' = w.panic
  /\ lock' = w.lock
  /\ faulted' = w.faulted
  /\ conforming' = w.conforming
  /\ others' = others
  /\ tag' = tag

Init ==
  /\ tag = DriverTag
  /\ maps = [m \in Maps |-> NoMap]
  /\ pmaps = [m \in Maps |-> "none"]
  /\ free = Refs
  /\ others = {}
  /\ entry = [r \in Refs |-> Unbound]
  /\ segments = <<>>
  /\ obs = [m \in Maps |-> NoObs]
  /\ panic = FALSE
  /\ lock = FALSE
  /\ faulted = FALSE
  /\ conforming = TRUE

Panic(w) == [w EXCEPT !.panic = TRUE, !.err = "panic"]

\* The failures of the collaborators are injected at most once in a
\* behaviour: w with the failure spent.
Failed(w) == [w EXCEPT !.faulted = TRUE]

\* ------------------------------------------------- the grant table (gnttab)
\* gnttab_alloc_grant_references: the batch of count free references it
\* reserves, the first count of the free list; none when fewer are free.
gnttab_alloc_grant_references(w, count) ==
  {R \in SUBSET w.free : /\ Cardinality(R) = count
                         /\ \A r \in R, q \in w.free \ R : r < q}

gnttab_grant_foreign_access_ref(e, ref, dom, frame, flags) ==
  [e EXCEPT ![ref] = [dom |-> dom, frame |-> frame, flags |-> flags]]

gnttab_end_foreign_access_ref(e, ref) == [e EXCEPT ![ref] = Unbound]

\* gnttab_end_foreign_access_references(count, refs): ends the access of
\* each reference and puts it back on the free list.  J are the references
\* the uninitialised elements of the array happen to name.
gnttab_end_foreign_access_references(w, count, refs, J) ==
  LET named == {refs[i] : i \in 1..count} \ {Junk}
      gone == named \cup J
  IN [w EXCEPT !.free = @ \cup gone,
               !.entry = [r \in Refs |-> IF r \in gone THEN Unbound ELSE @[r]]]

\* gnttab_request_free_callback: queues the callback unless it is queued.
gnttab_request_free_callback(w, m, count) ==
  IF w.maps[m].gnttab_callback # NotQueued THEN w
  ELSE [w EXCEPT !.maps[m].gnttab_callback = count]

\* The grant table runs a queued callback once count references are free.
Fireable(m) ==
  /\ maps[m].gnttab_callback # NotQueued
  /\ Cardinality(free) >= maps[m].gnttab_callback

\* ------------------------------------------- the parent tag (the translator)
\* _bus_dmamap_load_buffer and its siblings on the parent tag: the segments
\* land in the tag's segment array and *segp advances by one per segment;
\* or the load is deferred (only without BUS_DMA_NOWAIT); or it fails.
parent_load(w, m, flags, segp) ==
  {[w EXCEPT !.segments = s, !.pmaps[m] = "loaded", !.err = "0",
             !.nseg = segp + Len(s), !.obs[m].xlat = s,
             !.obs[m].xflags = flags] : s \in SegChoices(m)}
  \cup (IF w.faulted THEN {}
        ELSE {[Failed(w) EXCEPT !.pmaps[m] = "loaded", !.err = "EFBIG",
                                !.nseg = segp, !.obs[m].xflags = flags]})
  \cup (IF (flags \div BUS_DMA_NOWAIT) % 2 = 0
        THEN {[w EXCEPT !.pmaps[m] = "waiting", !.err = "EINPROGRESS",
                        !.nseg = segp, !.obs[m].xflags = flags]}
        ELSE {})

\* bus_dmamap_unload of the parent map.
parent_unload(w, m) ==
  [w EXCEPT !.pmaps[m] = IF @ = "waiting" THEN @ ELSE "idle",
            !.obs[m].punload = TRUE]

\* malloc(n, M_BUSDMA_XEN, M_NOWAIT): NULL, or n uninitialised elements.
malloc(w, n) ==
  (IF w.faulted THEN {} ELSE {NULL}) \cup {Arr([i \in 1..n |-> Junk])}

\* ------------------------------------------------------------ busdma_xen.c
\* Seeded fault: the loop grants the address, not the frame (no atop).
RECURSIVE grant_loop_noatop(_, _, _, _, _, _)
grant_loop_noatop(e, refs, segs, i, n, flags) ==
  IF i > n THEN e
  ELSE grant_loop_noatop(gnttab_grant_foreign_access_ref(e, refs[i], domid,
                           segs[i], flags), refs, segs, i + 1, n, flags)

\* The loop that grants the domain access to the page of each segment.
RECURSIVE grant_loop(_, _, _, _, _, _)
grant_loop(e, refs, segs, i, n, flags) ==
  IF i > n THEN e
  ELSE grant_loop(gnttab_grant_foreign_access_ref(e, refs[i], domid,
                    atop(segs[i]), flags), refs, segs, i + 1, n, flags)

\* The loop run on map m with the segment array segs; a NULL or short array,
\* or an unclaimed reference, is a fault.
GrantSegs(w, m, segs) ==
  LET x == w.maps[m]
      n == x.nrefs
  IN IF n > 0 /\ (~x.refs.alloc \/ Len(x.refs.v) < n \/ Len(segs) < n
                  \/ \E i \in 1..n : x.refs.v[i] = Junk)
     THEN Panic(w)
     ELSE [w EXCEPT !.entry = grant_loop(@, x.refs.v, segs, 1, n,
                                         x.gnttab_flags),
                    !.obs[m].nbound = @ + n]

\* xen_load_helper from "err:" on.
load_err(w, m, error) == [parent_unload(w, m) EXCEPT !.err = error]

\* Seeded fault: the notification is requested for one reference too few.
request_count_short(w, m) == w.maps[m].nrefs - 1

\* The count xen_load_helper hands to gnttab_request_free_callback.
request_count(w, m) == w.maps[m].nrefs

\* xen_load_helper from the allocation of the references on.
load_alloc(w, m) ==
  LET n == w.maps[m].nrefs
      heads == gnttab_alloc_grant_references(w, n)
      w1 == [w EXCEPT !.obs[m].nalloc = @ + 1,
                      !.obs[m].exhausted = @ \/ heads = {}]
  IN IF heads # {}
     THEN {[w1 EXCEPT !.maps[m].refs = Arr(SeqOf(R)), !.free = @ \ R,
                      !.maps[m].loaded = TRUE, !.err = "0"] : R \in heads}
     ELSE IF ~w1.maps[m].sleepable
     THEN {load_err([w1 EXCEPT !.maps[m].refs = NULL], m, "ENOSPC")}
     ELSE IF w1.maps[m].temp_segs = NULL
     THEN {IF t = NULL
           THEN load_err([Failed(w1) EXCEPT !.maps[m].refs = NULL], m,
                         "ENOMEM")
           ELSE [gnttab_request_free_callback(
                   [w1 EXCEPT !.maps[m].temp_segs =
                      Arr(Prefix(w1.segments, n))], m,
                   request_count(w1, m))
                 EXCEPT !.err = "EINPROGRESS"] : t \in malloc(w1, n)}
     ELSE {[gnttab_request_free_callback(w1, m, request_count(w1, m))
            EXCEPT !.err = "EINPROGRESS"]}

\* Seeded fault: the cursor on exit is taken for the count.
segcount_cursor(w, segp0) == w.nseg

\* segcount of xen_load_helper: segp0 is *op.segp on entry, w.nseg is
\* *op.segp on exit.
segcount(w, segp0) == w.nseg - segp0

\* Seeded fault: the early return of a pre-allocated map is missing.
load_translated_noprealloc(w, m, type, segp0) ==
  IF w.err = "EINPROGRESS" THEN {w}
  ELSE IF w.err # "0" THEN {load_err(w, m, w.err)}
  ELSE LET w1 == IF type # "NOLOAD"
                 THEN [w EXCEPT !.maps[m].nrefs = segcount(w, segp0)]
                 ELSE w
       IN UNION {IF r = NULL
                 THEN {load_err([Failed(w1) EXCEPT
                                   !.maps[m].refs = NULL], m, "ENOMEM")}
                 ELSE load_alloc([w1 EXCEPT !.maps[m].refs = r], m)
                 : r \in malloc(w1, w1.maps[m].nrefs)}

\* xen_load_helper from the translator's return on.
load_translated(w, m, type, segp0) ==
  IF w.err = "EINPROGRESS" THEN {w}
  ELSE IF w.err # "0" THEN {load_err(w, m, w.err)}
  ELSE LET w1 == IF type # "NOLOAD"
                 THEN [w EXCEPT !.maps[m].nrefs = segcount(w, segp0)]
                 ELSE w
       IN IF w1.maps[m].preallocated THEN {w1}
          ELSE UNION {IF r = NULL
                      THEN {load_err([Failed(w1) EXCEPT
                                        !.maps[m].refs = NULL], m, "ENOMEM")}
                      ELSE load_alloc([w1 EXCEPT !.maps[m].refs = r], m)
                      : r \in malloc(w1, w1.maps[m].nrefs)}

\* xen_load_helper.  op.flags and op.segp of a NOLOAD op are uninitialised:
\* the caller passes what op.flags happens to hold, and op.fault when the
\* read of *op.segp faults.
xen_load_helper(w, m, op) ==
  LET w1 == [w EXCEPT !.maps[m].gnttab_flags =
                        op.flags \div 2^BUS_DMA_XEN_GNTTAB_FLAGS_SHIFT]
      flags == op.flags % 65536
  IN IF w1.maps[m].loaded THEN {Panic(w1)}
     ELSE IF op.fault THEN {Panic(w1)}
     ELSE IF op.type = "NOLOAD"
     THEN load_translated([w1 EXCEPT !.err = "0"], m, op.type, op.segp)
     ELSE UNION {load_translated(w2, m, op.type, op.segp)
                 : w2 \in parent_load(w1, m, flags, op.segp)}

\* The driver's callback is invoked: what the driver then knows.
DriverCallback(w, m, who, segs, nseg, error) ==
  LET x == w.maps[m]
      o == w.obs[m]
      n == IF o.ncb < 2 THEN o.ncb + 1 ELSE o.ncb
  IN IF who = 0 THEN Panic(w)
     ELSE IF error # "0"
     THEN [w EXCEPT !.obs[m] =
             [NoObs EXCEPT !.waitok = o.waitok,
                           !.exhausted = o.exhausted, !.nalloc = o.nalloc,
                           !.punload = o.punload, !.ncb = n, !.cbwho = who,
                           !.cberr = error, !.cblock = w.lock]]
     ELSE [w EXCEPT
       !.obs[m].ncb = n,
       !.obs[m].cbwho = who,
       !.obs[m].cberr = error,
       !.obs[m].cbnseg = nseg,
       !.obs[m].cblock = w.lock,
       !.obs[m].cbok =
         /\ x.refs.alloc
         /\ Len(x.refs.v) >= x.nrefs
         /\ Len(segs) >= x.nrefs
         /\ \A i \in 1..x.nrefs :
              /\ x.refs.v[i] # Junk
              /\ w.entry[x.refs.v[i]] =
                   [dom |-> domid, frame |-> atop(segs[i]),
                    flags |-> x.gnttab_flags],
       !.obs[m].cbsegs = Prefix(segs, nseg),
       !.obs[m].phase = "bound",
       !.obs[m].held = IF x.refs.alloc /\ Len(x.refs.v) >= x.nrefs
                       THEN Range(Prefix(x.refs.v, x.nrefs)) ELSE {}]

\* The load stays in progress: on the translator, or on the grant table.
InProgress(w, m) ==
  [w EXCEPT !.obs[m].phase =
              IF w.obs[m].exhausted THEN "awaiting" ELSE "translating"]

xen_bus_dmamap_waitok(w, m, callback) ==
  [w EXCEPT !.maps[m].callback = callback, !.maps[m].sleepable = TRUE]

\* Seeded fault: the references are not granted before the callback.
xen_bus_dmamap_complete_nogrant(w, m, error) == w

\* xen_bus_dmamap_complete; the segments it returns are w.segments, the
\* segment array of the parent tag.
xen_bus_dmamap_complete(w, m, error) ==
  IF error # "0" THEN w ELSE GrantSegs(w, m, w.segments)

\* xen_dmamap_callback, the callback of the parent's deferred load.
xen_dmamap_callback(w, m, segs, nseg, error) ==
  LET w1 == [w EXCEPT !.maps[m].nrefs = nseg]
      cb == w1.maps[m].callback
      Freed(v) == [v EXCEPT !.maps[m].temp_segs = NULL]
      After(v) ==
        IF v.panic THEN v
        ELSE IF v.err = "EINPROGRESS" THEN InProgress(v, m)
        ELSE IF v.err # "0"
        THEN DriverCallback(Freed(v), m, 2 * cb, segs, nseg, v.err)
        ELSE LET g == GrantSegs(Freed(v), m, segs)
             IN IF g.panic THEN g
                ELSE DriverCallback(g, m, 2 * cb, segs, nseg, "0")
  IN IF error # "0" THEN {DriverCallback(w1, m, 2 * cb, segs, nseg, error)}
     ELSE UNION {
       IF t = NULL
       THEN {DriverCallback([Failed(w1) EXCEPT !.maps[m].temp_segs = NULL],
                            m, 2 * cb, segs, nseg, "ENOMEM")}
       ELSE UNION {
         {After(v) : v \in xen_load_helper(
            [w1 EXCEPT !.maps[m].temp_segs = Arr(Prefix(segs, nseg))], m,
            [type |-> "NOLOAD", fault |-> f, segp |-> 0,
             flags |-> garbage * 2^BUS_DMA_XEN_GNTTAB_FLAGS_SHIFT])}
         : garbage \in GarbageFlags, f \in BOOLEAN}
       : t \in malloc(w1, nseg)}

\* Seeded fault: the segments are read from the segment array of the parent
\* tag, not from the snapshot.
free_callback_segs_shared(w, m) == w.segments

\* xen_gnttab_free_callback, "segs = xenmap->temp_segs".
free_callback_segs(w, m) == w.maps[m].temp_segs.v

\* Seeded fault: the driver's callback is not called.
free_callback_done_silent(w, m, segs) ==
  [w EXCEPT !.maps[m].loaded = TRUE, !.maps[m].temp_segs = NULL]

\* Seeded fault: the callback is called without the lock of the tag.
free_callback_done_unlocked(w, m, segs) ==
  [DriverCallback([w EXCEPT !.maps[m].loaded = TRUE], m,
                  2 * w.maps[m].callback, segs, w.maps[m].nrefs, "0")
   EXCEPT !.maps[m].temp_segs = NULL]

\* xen_gnttab_free_callback from "xenmap->loaded = true" on: the driver's
\* callback is called with the lock of the tag held, and the snapshot is
\* freed.
free_callback_done(w, m, segs) ==
  [DriverCallback([w EXCEPT !.maps[m].loaded = TRUE, !.lock = TRUE], m,
                  2 * w.maps[m].callback, segs, w.maps[m].nrefs, "0")
   EXCEPT !.lock = FALSE, !.maps[m].temp_segs = NULL]

\* xen_gnttab_free_callback, run by the grant table.
xen_gnttab_free_callback(w, m) ==
  LET x == w.maps[m]
      heads == gnttab_alloc_grant_references(w, x.nrefs)
      w1 == [w EXCEPT !.maps[m].gnttab_callback = NotQueued,
                      !.obs[m].nalloc = @ + 1]
  IN IF ~x.live \/ heads = {} \/ ~x.temp_segs.alloc THEN {Panic(w1)}
     ELSE IF x.nrefs > 0 /\ (~x.refs.alloc \/ Len(x.refs.v) < x.nrefs)
     THEN {Panic(w1)}
     ELSE {LET w2 == [w1 EXCEPT
                 !.maps[m].refs = IF x.nrefs = 0 THEN @
                   ELSE Arr([i \in 1..Len(x.refs.v) |->
                          IF i <= x.nrefs THEN SeqOf(R)[i] ELSE x.refs.v[i]]),
                 !.free = @ \ R]
               segs == free_callback_segs(w2, m)
               w3 == GrantSegs(w2, m, segs)
           IN IF w3.panic THEN w3 ELSE free_callback_done(w3, m, segs)
           : R \in heads}

xen_bus_dmamap_load_buffer(w, m, flags, segp) ==
  xen_load_helper(w, m, [type |-> "LOAD_BUFFER", fault |-> FALSE,
                         segp |-> segp, flags |-> flags])

\* bus_dmamap_load of bus_dma(9) on a map of the Xen tag: waitok unless
\* BUS_DMA_NOWAIT, the load, then map_complete and the driver's callback
\* unless the load is in progress.
bus_dmamap_load(w, m, flags) ==
  LET waitok == (flags \div BUS_DMA_NOWAIT) % 2 = 0
      w0 == [w EXCEPT
               !.obs[m] = [NoObs EXCEPT !.waitok = waitok,
                             !.gflags = flags \div BUS_DMA_XEN_RO],
               !.conforming = @ /\ w.obs[m].phase = "idle",
               !.err = "0", !.nseg = 0]
      w1 == IF waitok THEN xen_bus_dmamap_waitok(w0, m, 1) ELSE w0
      Return(v) ==
        IF v.panic THEN v
        ELSE IF v.err = "EINPROGRESS"
        THEN [InProgress(v, m) EXCEPT !.obs[m].ret = "EINPROGRESS"]
        ELSE LET c == xen_bus_dmamap_complete(v, m, v.err)
             IN IF c.panic THEN c
                ELSE [DriverCallback(c, m, 1, c.segments,
                        IF v.err = "0" THEN v.nseg + 1 ELSE 0, v.err)
                      EXCEPT !.obs[m].ret =
                               IF v.err = "ENOMEM" THEN "ENOMEM" ELSE "0",
                             !.obs[m].reload =
                               v.err = "0" /\ w.obs[m].prev # {}]
  IN {Return(v) : v \in xen_bus_dmamap_load_buffer(w1, m, flags, -1)}

\* busdma_swi of the parent implementation: with the lock of the parent tag
\* held (the lockfunc and lockfuncarg of the Xen tag, handed on at tag
\* creation), the deferred load of the parent map is run again and its
\* callback, xen_dmamap_callback, is called.
busdma_swi(w, m) ==
  {[x EXCEPT !.lock = FALSE] : x \in
     UNION {xen_dmamap_callback(v, m, v.segments,
                                IF v.err = "0" THEN v.nseg + 1 ELSE 0, v.err)
            : v \in {u \in parent_load([w EXCEPT !.err = "0", !.nseg = 0,
                                                 !.lock = TRUE],
                                       m, 0, -1) : u.err # "EINPROGRESS"}}}

\* Seeded fault: the references of a pre-allocated map are given back too.
unload_refs_always(w, m) ==
  LET x == w.maps[m]
  IN IF x.nrefs > 0 /\ (~x.refs.alloc \/ Len(x.refs.v) < x.nrefs)
     THEN {Panic(w)}
     ELSE {[gnttab_end_foreign_access_references(w, x.nrefs, x.refs.v, {})
            EXCEPT !.maps[m].refs = NULL]}

\* Seeded fault: the array of a map that is not pre-allocated is not freed.
unload_refs_array_kept(w, m) ==
  LET x == w.maps[m]
  IN IF x.nrefs > 0 /\ (~x.refs.alloc \/ Len(x.refs.v) < x.nrefs)
     THEN {Panic(w)}
     ELSE IF x.preallocated
     THEN {[w EXCEPT !.entry =
              [r \in Refs |->
                 IF \E i \in 1..x.nrefs : x.refs.v[i] = r
                 THEN gnttab_end_foreign_access_ref(@, r)[r]
                 ELSE @[r]]]}
     ELSE {gnttab_end_foreign_access_references(w, x.nrefs, x.refs.v, {})}

\* xen_bus_dmamap_unload, the references: a pre-allocated map keeps them and
\* only ends the access; otherwise they go back to the grant table and the
\* array is freed.  A NULL array with nrefs > 0 is a fault; the references
\* that uninitialised elements name are J.
unload_refs(w, m) ==
  LET x == w.maps[m]
      junk == IF x.refs.alloc
              THEN Cardinality({i \in 1..x.nrefs : i <= Len(x.refs.v)
                                                   /\ x.refs.v[i] = Junk})
              ELSE 0
  IN IF x.nrefs > 0 /\ (~x.refs.alloc \/ Len(x.refs.v) < x.nrefs)
     THEN {Panic(w)}
     ELSE IF x.preallocated
     THEN {[w EXCEPT !.entry =
              [r \in Refs |->
                 IF \E i \in 1..x.nrefs : x.refs.v[i] = r
                 THEN gnttab_end_foreign_access_ref(@, r)[r]
                 ELSE @[r]]]}
     ELSE {[gnttab_end_foreign_access_references(w, x.nrefs, x.refs.v, J)
            EXCEPT !.maps[m].refs = NULL]
           : J \in {K \in SUBSET Refs : Cardinality(K) <= junk}}

\* Seeded fault: sleepable is not reset.
unload_reset_sleepable_kept(w, m) ==
  [w EXCEPT !.maps[m].nrefs = 0, !.maps[m].loaded = FALSE]

\* Seeded fault: loaded is not reset.
unload_reset_loaded_kept(w, m) ==
  [w EXCEPT !.maps[m].nrefs = 0, !.maps[m].sleepable = FALSE]

\* xen_bus_dmamap_unload, the count and "Reset the flags".
unload_reset(w, m) ==
  [w EXCEPT !.maps[m].nrefs = 0, !.maps[m].sleepable = FALSE,
            !.maps[m].loaded = FALSE]

\* xen_bus_dmamap_unload.
xen_bus_dmamap_unload(w, m) ==
  {IF v.panic THEN v
   ELSE LET v1 == unload_reset(v, m)
        IN IF v1.maps[m].temp_segs # NULL THEN Panic(v1)
           ELSE parent_unload(v1, m)
   : v \in unload_refs(w, m)}

\* bus_dmamap_unload of bus_dma(9) on a map of the Xen tag.
bus_dmamap_unload(w, m) ==
  LET o == w.obs[m]
      Seen(v) ==
        IF v.panic THEN v
        ELSE IF o.phase = "bound"
        THEN [v EXCEPT !.obs[m] = [NoObs EXCEPT !.prev = o.held]]
        ELSE v
  IN {Seen(v) : v \in xen_bus_dmamap_unload(
                  [w EXCEPT !.conforming = @ /\ o.phase = "bound"], m)}

\* Seeded fault: the array of a pre-allocated map is freed without giving
\* its references back to the grant table.
destroy_refs_leaked(w, m) ==
  IF w.maps[m].preallocated THEN [w EXCEPT !.maps[m].refs = NULL] ELSE w

\* xen_bus_dmamap_destroy, the references: those of a pre-allocated map go
\* back to the grant table and the array is freed.
destroy_refs(w, m) ==
  IF w.maps[m].preallocated
  THEN [gnttab_end_foreign_access_references(w, max_segments,
          w.maps[m].refs.v, {})
        EXCEPT !.maps[m].refs = NULL]
  ELSE w

\* xen_bus_dmamap_destroy.  The parent refuses (EBUSY) only a map in use.
xen_bus_dmamap_destroy(w, m) ==
  LET x == w.maps[m]
      w1 == destroy_refs(w, m)
  IN (IF w.pmaps[m] # "idle" THEN {[w EXCEPT !.err = "EBUSY"]} ELSE {})
     \cup {IF w1.maps[m].refs # NULL THEN Panic(w1)
           ELSE [w1 EXCEPT !.maps[m] = [NoMap EXCEPT !.gnttab_callback =
                                          x.gnttab_callback],
                           !.pmaps[m] = "none", !.obs[m] = NoObs,
                           !.err = "0"]}

\* Seeded fault: the array of a pre-allocated map is filled with the loop
\* index, not with the reference claimed.
xen_bus_dmamap_create_indices(w, m, prealloc) ==
  LET made == [w EXCEPT !.maps[m] = [NoMap EXCEPT !.live = TRUE],
                        !.pmaps[m] = "idle", !.obs[m] = NoObs, !.err = "0"]
      heads == gnttab_alloc_grant_references(w, max_segments)
  IN (IF w.faulted THEN {} ELSE {[Failed(w) EXCEPT !.err = "ENOMEM"]})
     \cup (IF ~prealloc THEN {made}
           ELSE IF heads = {} THEN {[w EXCEPT !.err = "ENOSPC"]}
           ELSE {[made EXCEPT !.maps[m].refs =
                                Arr([i \in 1..max_segments |-> i]),
                              !.maps[m].preallocated = TRUE,
                              !.free = @ \ R] : R \in heads})

\* xen_bus_dmamap_create; prealloc is BUS_DMA_XEN_PREALLOC_REFS in flags.
xen_bus_dmamap_create(w, m, prealloc) ==
  LET made == [w EXCEPT !.maps[m] = [NoMap EXCEPT !.live = TRUE],
                        !.pmaps[m] = "idle", !.obs[m] = NoObs, !.err = "0"]
      heads == gnttab_alloc_grant_references(w, max_segments)
  IN (IF w.faulted THEN {} ELSE {[Failed(w) EXCEPT !.err = "ENOMEM"]})
     \cup (IF ~prealloc THEN {made}
           ELSE IF heads = {} THEN {[w EXCEPT !.err = "ENOSPC"]}
           ELSE {[made EXCEPT !.maps[m].refs = Arr(SeqOf(R)),
                              !.maps[m].preallocated = TRUE,
                              !.free = @ \ R] : R \in heads})

\* ----------------------------------------------------------------- actions
\* The grant table runs a callback as soon as it can be run, before anything
\* else happens; nothing runs after a panic.
Running == ~panic /\ \A m \in Maps : ~Fireable(m)

CreateCall(m) ==
  /\ Running
  /\ conforming
  /\ ~maps[m].live
  /\ \E prealloc \in BOOLEAN :
       \E w \in xen_bus_dmamap_create(World, m, prealloc) : Becomes(w)

DestroyCall(m) ==
  /\ Running
  /\ conforming
  /\ maps[m].live
  /\ \E w \in xen_bus_dmamap_destroy(
                [World EXCEPT !.conforming = @ /\ obs[m].phase = "idle"], m) :
       Becomes(w)

LoadCall(m) ==
  /\ Running
  /\ conforming
  /\ maps[m].live
  /\ \E nowait \in {0, BUS_DMA_NOWAIT}, ro \in {0, BUS_DMA_XEN_RO} :
       \E w \in bus_dmamap_load(World, m, nowait + ro) : Becomes(w)

UnloadCall(m) ==
  /\ Running
  /\ conforming
  /\ maps[m].live
  /\ \E w \in bus_dmamap_unload(World, m) : Becomes(w)

\* The calls of a driver that keeps to the protocol of bus_dma(9): it loads
\* an idle map, unloads a loaded one and destroys an unloaded one.
MapCreate(m) == CreateCall(m)

MapDestroy(m) == obs[m].phase = "idle" /\ DestroyCall(m)

Load(m) == obs[m].phase = "idle" /\ LoadCall(m)

Unload(m) == obs[m].phase = "bound" /\ UnloadCall(m)

BusdmaSwi(m) ==
  /\ Running
  /\ maps[m].live
  /\ pmaps[m] = "waiting"
  /\ \E w \in busdma_swi(World, m) : Becomes(w)

GnttabFreeCallback(m) ==
  /\ ~panic
  /\ Fireable(m)
  /\ \E w \in xen_gnttab_free_callback(World, m) : Becomes(w)

Next ==
  \E m \in Maps :
    \/ MapCreate(m)
    \/ MapDestroy(m)
    \/ Load(m)
    \/ BusdmaSwi(m)
    \/ GnttabFreeCallback(m)
    \/ Unload(m)

Spec == Init /\ [][Next]_vars

\* The grant table is the system's: other drivers take references from it
\* and give them back.
OtherAlloc ==
  /\ Running
  /\ free # {}
  /\ LET r == CHOOSE r \in free : \A q \in free : q <= r
     IN /\ free' = free \ {r}
        /\ others' = others \cup {r}
  /\ UNCHANGED <<tag, maps, pmaps, entry, segments, obs, panic, lock,
                 faulted, conforming>>

OtherFree ==
  /\ Running
  /\ others # {}
  /\ LET r == CHOOSE r \in others : \A q \in others : r <= q
     IN /\ free' = free \cup {r}
        /\ others' = others \ {r}
  /\ UNCHANGED <<tag, maps, pmaps, entry, segments, obs, panic, lock,
                 faulted, conforming>>

NextShared == Next \/ OtherAlloc \/ OtherFree

\* The behaviours in which no collaborator fails.
InitNoFailure ==
  /\ tag = DriverTag
  /\ maps = [m \in Maps |-> NoMap]
  /\ pmaps = [m \in Maps |-> "none"]
  /\ free = Refs
  /\ others = {}
  /\ entry = [r \in Refs |-> Unbound]
  /\ segments = <<>>
  /\ obs = [m \in Maps |-> NoObs]
  /\ panic = FALSE
  /\ lock = FALSE
  /\ faulted = TRUE
  /\ conforming = TRUE

\* The grant table runs the callbacks it can run; the drivers owe nothing.
FairSpec ==
  /\ InitNoFailure
  /\ [][NextShared]_vars
  /\ \A m \in Maps : WF_vars(GnttabFreeCallback(m))

\* The calls of a driver that breaks the protocol of bus_dma(9): it loads a
\* map that is loaded or waits for the grant table, unloads a map that waits
\* for the grant table, or destroys a map it has not unloaded.  The first such
\* call is the driver's last call; the deferred callbacks still run.
LoadBound(m) == obs[m].phase = "bound" /\ LoadCall(m)

LoadAwaiting(m) == obs[m].phase = "awaiting" /\ LoadCall(m)

UnloadAwaiting(m) == obs[m].phase = "awaiting" /\ UnloadCall(m)

DestroyBound(m) == obs[m].phase = "bound" /\ DestroyCall(m)

DestroyAwaiting(m) == obs[m].phase = "awaiting" /\ DestroyCall(m)

NextMisuse ==
  \/ Next
  \/ \E m \in Maps :
       \/ LoadBound(m)
       \/ LoadAwaiting(m)
       \/ UnloadAwaiting(m)
       \/ DestroyBound(m)
       \/ DestroyAwaiting(m)

MisuseSpec == Init /\ [][NextMisuse]_vars

\* The creation of tags: a driver calls xen_bus_dma_tag_create (through
\* bus_dma_tag_create) with its arguments, or xen_get_dma_tag.
TagInit ==
  /\ tag \in {a \in TagArgs : a.parent = "xentag" \/ a.init # 0}
  /\ maps = [m \in Maps |-> NoMap]
  /\ pmaps = [m \in Maps |-> "none"]
  /\ free = Refs
  /\ others = {}
  /\ entry = [r \in Refs |-> Unbound]
  /\ segments = <<>>
  /\ obs = [m \in Maps |-> NoObs]
  /\ panic = FALSE
  /\ lock = FALSE
  /\ faulted = FALSE
  /\ conforming = TRUE

TagCreate ==
  /\ tag.op = "args"
  /\ \E fail \in {"none", "common", "parent"} :
       LET r == xen_bus_dma_tag_create(tag.dmat, tag.parent, tag.nsegments,
                  tag.maxsegsz,
                  tag.init + tag.domid * 2^BUS_DMA_XEN_DOMID_SHIFT, fail)
       IN tag' = [tag EXCEPT !.op = "create", !.error = r.error,
                             !.dmat = r.dmat]
  /\ UNCHANGED <<maps, pmaps, free, others, entry, segments, obs, panic,
                 lock, faulted, conforming>>

GetDmaTag ==
  /\ tag.op = "args"
  /\ \E garbage \in {Unassigned, NoTag}, fail \in {"none", "common", "parent"} :
       LET r == xen_get_dma_tag(tag.parent, garbage, fail)
       IN tag' = [tag EXCEPT !.op = "get", !.error = r.error,
                             !.dmat = r.dmat]
  /\ UNCHANGED <<maps, pmaps, free, others, entry, segments, obs, panic,
                 lock, faulted, conforming>>

TagNext == TagCreate \/ GetDmaTag

TagSpec == TagInit /\ [][TagNext]_vars

\* ------------------------------------------------------------ properties
\* A load on map m has completed with success and has not been unloaded.
Bound(m) == maps[m].live /\ obs[m].phase = "bound"

\* A load on map m waits for the grant table.
Awaiting(m) == maps[m].live /\ obs[m].phase = "awaiting"

\* The references the array of map m names.
RefsOf(m) ==
  IF maps[m].refs.alloc THEN Range(maps[m].refs.v) \ {Junk} ELSE {}

\* Map m does something in this step.
Acts(m) == obs'[m] # obs[m] \/ maps'[m] # maps[m]

\* A driver loads map m again after a load and an unload.
Reloads(m) ==
  /\ maps[m].live
  /\ obs[m].phase = "idle"
  /\ obs[m].prev # {}
  /\ maps'[m].live
  /\ Acts(m)

\* C1: whenever a load has completed with success, on whichever path, the
\* number of references it bound, the number of segments the translation
\* produced and the segment count handed to the callback are the same number,
\* and so is the number of references of the map.
C1_BoundCountIsSegmentCount ==
  \A m \in Maps :
    Bound(m) =>
      /\ obs[m].nbound = Len(obs[m].xlat)
      /\ obs[m].cbnseg = Len(obs[m].xlat)
      /\ maps[m].nrefs = Len(obs[m].xlat)
      /\ Cardinality(obs[m].held) = Len(obs[m].xlat)

\* C1 happens: a load of max_segments segments whose translation was
\* deferred has completed.
C1_DeferredLoadCompleted ==
  \E m \in Maps :
    /\ Bound(m)
    /\ obs[m].ret = "EINPROGRESS"
    /\ ~obs[m].exhausted
    /\ obs[m].nbound = max_segments

\* C2 as the specification states it: on every path every reference of a
\* completed load is granted to the tag's domain with the flags decoded from
\* the flags of that load (flags >> 16), and the translator is handed the
\* flags without the high bits.
C2_BoundWithFlagsOfTheLoad ==
  \A m \in Maps :
    /\ obs[m].xflags < 2^BUS_DMA_XEN_GNTTAB_FLAGS_SHIFT
    /\ Bound(m) =>
         \A r \in obs[m].held :
           entry[r].dom = domid /\ entry[r].flags = obs[m].gflags

\* C3 as the specification states it: the address of every segment handed
\* to the callback is the grant reference bound for that segment.
C3_SegmentsCarryGrantRefs ==
  \A m \in Maps :
    Bound(m) =>
      \A i \in 1..obs[m].cbnseg : obs[m].cbsegs[i] = maps[m].refs.v[i]

\* C3, amended: the segments handed to the callback are the segments the
\* translation produced, machine addresses untouched; the i-th reference of
\* the map (xen_dmamap_get_grefs) is granted to the tag's domain for the frame
\* of the i-th segment, one grant per segment; and an unload leaves every one
\* of these references granting nothing.
C3_RefsGrantTheSegmentFrames ==
  /\ [](\A m \in Maps :
          Bound(m) =>
            /\ obs[m].cbsegs = obs[m].xlat
            /\ obs[m].nbound = obs[m].cbnseg
            /\ \A i \in 1..obs[m].cbnseg :
                 /\ entry[maps[m].refs.v[i]].dom = domid
                 /\ entry[maps[m].refs.v[i]].frame = atop(obs[m].cbsegs[i]))
  /\ [][\A m \in Maps :
          (Bound(m) /\ Acts(m)) =>
             \A r \in obs[m].held : entry'[r] = Unbound]_vars

\* C3 happens: a load of max_segments segments is bound, and the address of
\* its last segment is not the reference granted for it.
C3_BoundWithMachineAddresses ==
  \E m \in Maps :
    /\ Bound(m)
    /\ obs[m].cbnseg = max_segments
    /\ obs[m].cbsegs[max_segments] # maps[m].refs.v[max_segments]
    /\ entry[maps[m].refs.v[max_segments]].frame
         = atop(obs[m].cbsegs[max_segments])

\* C4: the unload of a map that is not pre-allocated and whose load completed
\* does not panic and leaves nrefs 0, refs NULL, loaded and sleepable false,
\* and every reference the map held granting nothing and back on the free
\* list.
C4_UnloadReleasesTheRefs ==
  [][\A m \in Maps :
       (Bound(m) /\ ~maps[m].preallocated /\ Acts(m)) =>
         /\ ~panic'
         /\ obs'[m].phase = "idle"
         /\ maps'[m].nrefs = 0
         /\ maps'[m].refs = NULL
         /\ ~maps'[m].loaded
         /\ ~maps'[m].sleepable
         /\ \A r \in obs[m].held : r \in free' /\ entry'[r] = Unbound]_vars

\* C4 happens: a map that is not pre-allocated has been unloaded after a
\* load issued without BUS_DMA_NOWAIT, and its references are free again.
C4_UnloadedAfterLoad ==
  \E m \in Maps :
    /\ maps[m].live
    /\ ~maps[m].preallocated
    /\ obs[m].phase = "idle"
    /\ Cardinality(obs[m].prev) = max_segments
    /\ obs[m].prev \subseteq free
    /\ maps[m].refs = NULL

\* C5 as the specification states it: a load after a load and an unload
\* succeeds when the grant table has enough free references, and the
\* references it binds are none of those the load before it bound.
C5_ReloadBindsFreshRefs ==
  [][\A m \in Maps :
       Reloads(m) =>
         /\ (/\ faulted' = faulted
             /\ maps[m].preallocated \/ Cardinality(free) >= max_segments)
            => ~panic' /\ obs'[m].phase \in {"bound", "translating"}
         /\ obs'[m].phase = "bound" =>
              obs'[m].held \cap obs[m].prev = {}]_vars

\* C5, amended: a load after a load and an unload succeeds (or is deferred
\* by the translator) when no collaborator fails and the grant table has
\* enough free references; the references it binds are the map's alone,
\* neither free nor in the array of another map, one per segment.  They are
\* taken from the free list, where the unload put the references of the load
\* before, so they can be the same; on a pre-allocated map they are elements
\* of the same array and are the same.
C5_ReloadBindsOwnedRefs ==
  [][\A m \in Maps :
       Reloads(m) =>
         /\ (/\ faulted' = faulted
             /\ maps[m].preallocated \/ Cardinality(free) >= max_segments)
            => ~panic' /\ obs'[m].phase \in {"bound", "translating"}
         /\ obs'[m].phase = "bound" =>
              /\ Cardinality(obs'[m].held) = Len(obs'[m].xlat)
              /\ obs'[m].held \cap free' = {}
              /\ \A m2 \in Maps \ {m} : obs'[m].held \cap RefsOf(m2)' = {}
              /\ maps[m].preallocated =>
                   /\ maps'[m].refs = maps[m].refs
                   /\ obs'[m].held \cap obs[m].prev # {}
              /\ ~maps[m].preallocated => obs'[m].held \subseteq free]_vars

\* C5 happens: a pre-allocated map has been loaded, unloaded and loaded
\* again, and is bound.
C5_PreallocatedReloaded ==
  \E m \in Maps :
    /\ Bound(m)
    /\ maps[m].preallocated
    /\ obs[m].reload

\* C6 as the specification states it: when the grant table has too few free
\* references for a load issued with BUS_DMA_NOWAIT, the error is handed to
\* the callback of the load before the load returns, the parent map has been
\* unloaded, refs is NULL, no reference is claimed and no callback of the
\* grant table is queued.
C6_NowaitExhaustionFailsAtOnce ==
  \A m \in Maps :
    (maps[m].live /\ ~obs[m].waitok /\ obs[m].exhausted) =>
      /\ obs[m].phase = "idle"
      /\ obs[m].ncb = 1
      /\ obs[m].cbwho = 1
      /\ obs[m].cberr = "ENOSPC"
      /\ obs[m].punload
      /\ maps[m].refs = NULL
      /\ maps[m].gnttab_callback = NotQueued

\* A load that opted into deferral (no BUS_DMA_NOWAIT) found the grant table
\* with too few free references.
Deferred(m) == maps[m].live /\ obs[m].waitok /\ obs[m].exhausted

\* C7: the callback of a load that opted into deferral and found too few
\* free references is not called while the load waits and has been called
\* once, with success, when the load is bound; the references are then
\* granted for the frames of the segments the translation of this load
\* produced, whatever the segment array of the tag holds by then.
C7_DeferredLoadBindsTheSnapshot ==
  \A m \in Maps :
    Deferred(m) =>
      /\ obs[m].ncb <= 1
      /\ obs[m].phase = "awaiting" => obs[m].ncb = 0
      /\ obs[m].phase = "bound" =>
           /\ obs[m].ncb = 1
           /\ obs[m].cbwho = 2
           /\ obs[m].cberr = "0"
           /\ obs[m].cbsegs = obs[m].xlat
           /\ \A i \in 1..Len(obs[m].xlat) :
                entry[maps[m].refs.v[i]].frame = atop(obs[m].xlat[i])

\* C7 happens: such a load is bound after a load on another map overwrote
\* every segment of the segment array of the tag.
C7_BoundAfterOverwrite ==
  \E m \in Maps :
    /\ Deferred(m)
    /\ Bound(m)
    /\ Len(obs[m].xlat) = max_segments
    /\ Len(segments) = max_segments
    /\ \A i \in 1..max_segments : segments[i] # obs[m].xlat[i]

\* The callback of the load on map m has been called once, with success and
\* the segments the translation produced.
Served(m) ==
  /\ Bound(m)
  /\ obs[m].ncb = 1
  /\ obs[m].cberr = "0"
  /\ obs[m].cbsegs = obs[m].xlat

\* The first half of C8: while a load that opted into deferral waits, it has
\* returned EINPROGRESS and its callback has not been called.
C8_NoCallbackWhileWaiting ==
  \A m \in Maps :
    (Awaiting(m) /\ obs[m].waitok) =>
      obs[m].ret = "EINPROGRESS" /\ obs[m].ncb = 0

\* C8 as the specification states it: such a load returns EINPROGRESS
\* without a callback, and once the grant table has the references it asked
\* for, its callback is eventually called with success and the segments of
\* its translation.
C8_FreedPoolCompletesTheLoad ==
  /\ []C8_NoCallbackWhileWaiting
  /\ \A m \in Maps :
       (Awaiting(m) /\ obs[m].waitok
          /\ Cardinality(free) >= maps[m].gnttab_callback) ~> Served(m)

\* C8, amended: such a load returns EINPROGRESS without a callback, and once
\* the grant table has the references it asked for and no other queued
\* request that the same references would satisfy, its callback is
\* eventually called with success and the segments of its translation.
C8_SoleWaiterCompletesTheLoad ==
  /\ []C8_NoCallbackWhileWaiting
  /\ \A m \in Maps :
       (Awaiting(m) /\ obs[m].waitok /\ Fireable(m)
          /\ \A m2 \in Maps \ {m} : ~Fireable(m2)) ~> Served(m)

\* C8 happens: a load that waited while the other drivers held the
\* references has been served.
C8_ServedAfterWaiting ==
  \E m \in Maps :
    /\ Served(m)
    /\ Deferred(m)
    /\ obs[m].ret = "EINPROGRESS"
    /\ \A m2 \in Maps \ {m} : RefsOf(m2) = {}

\* C9: the creation of a pre-allocated map takes exactly max_segments
\* references off the free list into the array of the map, and a creation
\* that fails changes neither the free list nor the grant table; a load on a
\* pre-allocated map never calls gnttab_alloc_grant_references, never queues
\* a callback of the grant table, and binds only references of the array.
C9_PreallocatedLoadNeverAllocates ==
  /\ [](\A m \in Maps :
          (maps[m].live /\ maps[m].preallocated) =>
            /\ maps[m].refs.alloc
            /\ Len(maps[m].refs.v) = max_segments
            /\ Cardinality(RefsOf(m)) = max_segments
            /\ RefsOf(m) \cap free = {}
            /\ obs[m].nalloc = 0
            /\ ~obs[m].exhausted
            /\ obs[m].phase # "awaiting"
            /\ maps[m].gnttab_callback = NotQueued
            /\ Bound(m) => obs[m].held \subseteq RefsOf(m))
  /\ [][\A m \in Maps :
          (~maps[m].live /\ maps'[m].live /\ maps'[m].preallocated) =>
            /\ free' \subseteq free
            /\ RefsOf(m)' = free \ free'
            /\ Cardinality(free \ free') = max_segments]_vars
  /\ [][(maps' = maps /\ obs' = obs) =>
          (free' = free /\ entry' = entry)]_vars

\* C9 happens: a load whose translation was deferred is bound on a
\* pre-allocated map, with all the references of the array.
C9_PreallocatedBound ==
  \E m \in Maps :
    /\ Bound(m)
    /\ maps[m].preallocated
    /\ obs[m].ret = "EINPROGRESS"
    /\ obs[m].held = RefsOf(m)

\* C10: no step of a pre-allocated map that stays alive changes its array of
\* references or puts one of them on the free list, and its unload leaves
\* them granting nothing; the step that destroys the map puts exactly the
\* max_segments references of the array on the free list, granting nothing.
C10_OnlyDestroyReleasesPreallocatedRefs ==
  [][\A m \in Maps :
       (maps[m].live /\ maps[m].preallocated) =>
         /\ maps'[m].live =>
              /\ maps'[m].refs = maps[m].refs
              /\ RefsOf(m) \cap free' = {}
              /\ (Bound(m) /\ Acts(m)) =>
                   /\ ~panic'
                   /\ obs'[m].phase = "idle"
                   /\ \A r \in RefsOf(m) : entry'[r] = Unbound
         /\ ~maps'[m].live =>
              /\ free' = free \cup RefsOf(m)
              /\ Cardinality(free') = Cardinality(free) + max_segments
              /\ \A r \in RefsOf(m) : entry'[r] = Unbound]_vars

\* C10 happens: a pre-allocated map has been loaded with max_segments
\* segments and unloaded, and still holds its max_segments references.
C10_PreallocatedUnloaded ==
  \E m \in Maps :
    /\ maps[m].live
    /\ maps[m].preallocated
    /\ obs[m].phase = "idle"
    /\ obs[m].prev # {}
    /\ Cardinality(obs[m].prev) = max_segments
    /\ obs[m].prev = RefsOf(m)
    /\ RefsOf(m) \cap free = {}
    /\ \A r \in RefsOf(m) : entry[r] = Unbound


\* C11: a load issued on a map whose load has completed and has not been
\* unloaded panics before any translation or grant operation: the array of
\* the map, the grant table and the parent map are as they were.  This holds
\* for a pre-allocated map too.
C11_LoadOnBoundPanics ==
  [][\A m \in Maps :
       LoadBound(m) =>
         /\ panic'
         /\ maps'[m].refs = maps[m].refs
         /\ entry' = entry
         /\ free' = free
         /\ pmaps' = pmaps]_vars

\* C12: a load issued on a map that waits for the grant table is rejected:
\* it panics or fails, and it neither replaces the array of references, nor
\* touches the snapshot or the registration of the notification, nor takes or
\* grants a reference.
C12_LoadWhileAwaitingIsRejected ==
  [][\A m \in Maps :
       LoadAwaiting(m) =>
         /\ panic' \/ obs'[m].ret \notin {"0", "EINPROGRESS"}
         /\ maps'[m].refs = maps[m].refs
         /\ maps'[m].temp_segs = maps[m].temp_segs
         /\ maps'[m].gnttab_callback = maps[m].gnttab_callback
         /\ entry' = entry
         /\ free' = free]_vars

\* C13: an unload issued on a map that waits for the grant table cancels the
\* notification or has no effect: it does not panic, no notification of the
\* map stays queued with the array or the snapshot released, and no reference
\* is revoked or given back, the map having claimed none.
C13_UnloadWhileAwaitingIsSafe ==
  [][\A m \in Maps :
       UnloadAwaiting(m) =>
         /\ ~panic'
         /\ \/ maps'[m].gnttab_callback = NotQueued
            \/ maps'[m].refs # NULL /\ maps'[m].temp_segs # NULL
         /\ entry' = entry
         /\ free' = free]_vars

C15_RefsNamedIffBound ==
  \A m \in Maps : maps[m].live => (RefsOf(m) # {} <=> Bound(m))

\* C15, amended: the array of a map that is not pre-allocated exists exactly
\* while the map waits for the grant table or is bound, and names references
\* exactly while the map is bound; the array of a pre-allocated map names
\* max_segments references from creation to destruction, and some of them
\* grant access exactly while the map is bound.
C15_RefsFollowTheLoad ==
  \A m \in Maps :
    maps[m].live =>
      IF maps[m].preallocated
      THEN /\ Cardinality(RefsOf(m)) = max_segments
           /\ {r \in RefsOf(m) : entry[r] # Unbound} # {} <=> Bound(m)
      ELSE /\ maps[m].refs # NULL <=> Bound(m) \/ Awaiting(m)
           /\ RefsOf(m) # {} <=> Bound(m)

\* An idle pre-allocated map holds its references while another map, not
\* pre-allocated, waits for the grant table with its array allocated.
C15_IdleHoldsAndWaiterHasArray ==
  \E m, k \in Maps :
    /\ maps[m].live
    /\ maps[m].preallocated
    /\ obs[m].phase = "idle"
    /\ Cardinality(RefsOf(m)) = max_segments
    /\ Awaiting(k)
    /\ maps[k].refs # NULL
    /\ RefsOf(k) = {}

\* C16: destroying a map whose load has completed and has not been unloaded,
\* or that waits for the grant table, does not free the map: the call is
\* refused by the parent or trips the assertion, and no reference is given
\* back.  This holds for a pre-allocated map too.
C16_DestroyOfLoadedMapIsStopped ==
  [][\A m \in Maps :
       DestroyBound(m) \/ DestroyAwaiting(m) =>
         /\ maps'[m].live
         /\ free' = free]_vars

C18_DeferredLoadCallsBackOnce ==
  /\ [](\A m \in Maps :
          /\ obs[m].ncb <= 1
          /\ obs[m].phase \in {"translating", "awaiting"} => obs[m].ncb = 0)
  /\ [][\A m \in Maps :
         BusdmaSwi(m) =>
           \/ obs'[m].phase = "awaiting" /\ obs'[m].ncb = 0
           \/ /\ obs'[m].ncb = 1
              /\ obs'[m].cbwho = 2
              /\ obs'[m].phase = "bound" \/ obs'[m].cberr # "0"]_vars

\* C19: whenever an allocation of the bookkeeping fails (the array of
\* references or the snapshot in xen_load_helper, the snapshot in
\* xen_dmamap_callback) and the driver is told ENOMEM, the parent map has
\* been unloaded by then, and neither the array of a map that is not
\* pre-allocated nor the snapshot stays allocated.
C19_AllocationFailureUnloads ==
  [][\A m \in Maps :
       /\ ~faulted
       /\ faulted'
       /\ obs'[m] # obs[m]
       /\ obs'[m].cberr = "ENOMEM"
       => /\ obs'[m].punload
          /\ pmaps'[m] = "idle"
          /\ maps'[m].preallocated \/ maps'[m].refs = NULL
          /\ maps'[m].temp_segs = NULL]_vars

\* C20: on every path of a load the driver's callback is called with
\* success only when each of the first nrefs references of the map is
\* claimed and grants the domain of the tag access to the frame of its
\* segment with the flags of the map.
C20_GrantedBeforeCallback ==
  \A m \in Maps :
    obs[m].ncb > 0 /\ obs[m].cberr = "0" => obs[m].cbok

\* A callback with success was made for max_segments segments on each path:
\* by the load itself and by a deferred completion.
C20_CalledBackOnEachPath ==
  \E m, k \in Maps :
    /\ Bound(m)
    /\ obs[m].cbwho = 1
    /\ obs[m].cbok
    /\ Bound(k)
    /\ obs[k].cbwho = 2
    /\ obs[k].cbnseg = max_segments
    /\ obs[k].cbok

\* C21: in every state each reference is named by the array of at most one
\* map and no reference a map names is on the free list or held by another
\* user of the grant table; and a step that leaves a map alone neither
\* rebinds nor revokes nor gives back a reference that map names.
C21_RefsOwnedByOneMap ==
  /\ [](\A m \in Maps :
          /\ RefsOf(m) \cap (free \cup others) = {}
          /\ \A k \in Maps \ {m} : RefsOf(m) \cap RefsOf(k) = {})
  /\ [][\A k \in Maps :
         ~Acts(k) =>
           \A r \in RefsOf(k) : entry'[r] = entry[r] /\ r \notin free']_vars

\* Two maps hold references at once, each granting access, after one of them
\* was served by the grant table with references the other had given back.
C21_TwoMapsHoldRefs ==
  \E m, k \in Maps :
    /\ m # k
    /\ Bound(m)
    /\ Bound(k)
    /\ obs[k].exhausted
    /\ obs[k].cbwho = 2
    /\ obs[m].prev # {} \/ obs[m].reload
    /\ RefsOf(m) # {}
    /\ RefsOf(k) # {}

\* The last load of map m failed before it returned: its callback was called
\* once, by the load itself, with an error, and nothing was called on the map
\* since.
FailedLoad(m) ==
  /\ maps[m].live
  /\ obs[m].phase = "idle"
  /\ obs[m].ncb = 1
  /\ obs[m].cbwho = 1
  /\ obs[m].cberr \notin {"none", "0"}

\* C22: after a load that failed before it returned, the map holds no
\* partial state: no array unless pre-allocated, nrefs zero, no snapshot, no
\* callback queued at the grant table, loaded false; an unload issued next
\* does not fault and neither revokes nor gives back a reference.
C22_FailedLoadLeavesNothing ==
  \A m \in Maps :
    FailedLoad(m) =>
      /\ maps[m].preallocated \/ maps[m].refs = NULL
      /\ maps[m].nrefs = 0
      /\ maps[m].temp_segs = NULL
      /\ maps[m].gnttab_callback = NotQueued
      /\ ~maps[m].loaded
      /\ \A v \in xen_bus_dmamap_unload(World, m) :
           ~v.panic /\ v.free = free /\ v.entry = entry

\* C23: xen_get_dma_tag yields a valid Xen tag: the creation it performs
\* passes the validation of the segment size and returns no error, and the
\* handle it returns is an initialised tag.
C23_GetDmaTagYieldsATag ==
  tag.op = "get" => tag.error = "0" /\ tag.dmat.kind = "tag"

\* The number of references the arrays of the maps in ms name.
RECURSIVE HeldBy(_)
HeldBy(ms) ==
  IF ms = {} THEN 0
  ELSE LET m == CHOOSE k \in ms : TRUE
       IN Cardinality(RefsOf(m)) + HeldBy(ms \ {m})

\* C24: under protocol-conforming use the references are conserved: the
\* free ones, those of the other users and those the live maps hold add up
\* to the size of the grant table, and when no map is left every reference
\* is free or with the other users.
C24_SlotsConserved ==
  /\ Cardinality(free) + Cardinality(others)
       + HeldBy({m \in Maps : maps[m].live}) = PoolSize
  /\ (\A m \in Maps : ~maps[m].live) => free \cup others = Refs

\* A map that was loaded and unloaded is idle, a second map was served by
\* the grant table with the references given back, and they add up.
C24_GivenBackAndServed ==
  \E m, k \in Maps :
    /\ maps[m].live
    /\ obs[m].phase = "idle"
    /\ obs[m].prev # {}
    /\ Bound(k)
    /\ obs[k].exhausted
    /\ obs[k].cbwho = 2
    /\ Cardinality(free) + Cardinality(RefsOf(k)) = PoolSize

\* C25: whether an exhausted grant table defers a load depends on that load
\* alone: a load issued with BUS_DMA_NOWAIT never returns EINPROGRESS, never
\* waits for the grant table and never queues a callback there, whatever
\* was called on the map before.
C25_NowaitLoadNeverDeferred ==
  \A m \in Maps :
    maps[m].live /\ ~obs[m].waitok =>
      /\ obs[m].ret # "EINPROGRESS"
      /\ obs[m].phase # "awaiting"
      /\ maps[m].gnttab_callback = NotQueued
=============================================================================
